---- MODULE Spec2Model ----
(***************************************************************************)
(* Model of Project-setup.py (IGCSE Assessment Tool scaffolding script).   *)
(*                                                                         *)
(* The state is the file system, the process working directory, the local  *)
(* variables of create_project_structure and its position (pc).  A string  *)
(* is a sequence of tokens: an answer to a y/n prompt is a sequence of     *)
(* characters, a path string is a sequence of path tokens ("/", "~", " "   *)
(* or a whole component name).  An absolute file-system location is the    *)
(* sequence of its component names; << >> is the root directory.           *)
(***************************************************************************)
EXTENDS Integers, Sequences, FiniteSets, TLC

VARIABLES
    pc,           \* position in create_project_structure
    fs,           \* the file system
    cwd,          \* the process working directory
    response,     \* local variable response (assigned at both y/n prompts)
    custom_path,  \* local variable custom_path
    base_dir,     \* local variable base_dir
    project_dir,  \* local variable project_dir
    idx,          \* position in the loop being run
    typed,        \* what the user typed at each prompt, as typed
    fs0           \* the file system before the script ran

vars == <<pc, fs, cwd, response, custom_path, base_dir, project_dir, idx, typed, fs0>>

\* ------------------------------------------------------------------------
\* Strings

\* str.lower() on the characters the answers are made of
LowerChar(c) ==
    CASE c = "Y" -> "y"
      [] c = "N" -> "n"
      [] c = "E" -> "e"
      [] c = "S" -> "s"
      [] OTHER -> c

Lower(s) == [k \in 1..Len(s) |-> LowerChar(s[k])]

RECURSIVE LStrip(_)
LStrip(s) == IF s # << >> /\ Head(s) = " " THEN LStrip(Tail(s)) ELSE s

RECURSIVE RStrip(_)
RStrip(s) ==
    IF s # << >> /\ s[Len(s)] = " " THEN RStrip(SubSeq(s, 1, Len(s) - 1)) ELSE s

\* str.strip()
Strip(s) == RStrip(LStrip(s))

\* the literal 'y' the answers are compared with
Yes == <<"y">>

\* value of a local variable that has not been assigned yet
Unset == <<"<unset>">>

\* ------------------------------------------------------------------------
\* pathlib.Path values: [abs, comps]

\* Path(s): a leading "/" makes the path absolute, "/" separates components,
\* empty components (doubled or trailing slashes) are dropped
IsSep(t) == t = "/"
NotSep(t) == ~IsSep(t)
PathOf(s) == [abs |-> s # << >> /\ IsSep(Head(s)), comps |-> SelectSeq(s, NotSep)]

HomeDir == <<"home", "u">>
InitialCwd == <<"home", "u", "cur">>

\* Path.expanduser(): a leading "~" component is replaced by the home directory
ExpandUser(p) ==
    IF ~p.abs /\ p.comps # << >> /\ Head(p.comps) = "~"
    THEN [abs |-> TRUE, comps |-> HomeDir \o Tail(p.comps)]
    ELSE p

\* p / name
Join(p, name) == [p EXCEPT !.comps = @ \o <<name>>]

\* the location a path denotes when the working directory is c
Abs(p, c) == IF p.abs THEN p.comps ELSE c \o p.comps

\* Path.cwd()
CwdPath(c) == [abs |-> TRUE, comps |-> c]

project_name == "igcse-assessment-tool"

\* ------------------------------------------------------------------------
\* File system: a function from the locations that exist to their node

DirNode == [kind |-> "dir", content |-> "-"]
FileNode(c) == [kind |-> "file", content |-> c]

Parent(a) == SubSeq(a, 1, Len(a) - 1)

IsPrefix(a, b) == Len(a) <= Len(b) /\ SubSeq(b, 1, Len(a)) = a

\* Path.exists()
Exists(f, a) == a \in DOMAIN f
IsDir(f, a) == a \in DOMAIN f /\ f[a].kind = "dir"

Put(f, a, node) == [x \in DOMAIN f \cup {a} |-> IF x = a THEN node ELSE f[x]]

Ok(f) == [ok |-> TRUE, fs |-> f]
Raise(f) == [ok |-> FALSE, fs |-> f]

\* Path.mkdir(parents=..., exist_ok=...)
RECURSIVE Mkdir(_, _, _, _)
Mkdir(f, a, parents, exist_ok) ==
    IF Exists(f, a)
    THEN IF exist_ok /\ IsDir(f, a) THEN Ok(f) ELSE Raise(f)
    ELSE IF a = << >> THEN Raise(f)
    ELSE IF IsDir(f, Parent(a)) THEN Ok(Put(f, a, DirNode))
    ELSE IF Exists(f, Parent(a)) THEN Raise(f)
    ELSE IF ~parents THEN Raise(f)
    ELSE LET up == Mkdir(f, Parent(a), TRUE, TRUE)
         IN  IF up.ok THEN Ok(Put(up.fs, a, DirNode)) ELSE Raise(f)

\* shutil.rmtree(a): removes the directory and everything below it
Rmtree(f, a) ==
    IF IsDir(f, a)
    THEN Ok([x \in {y \in DOMAIN f : ~IsPrefix(a, y)} |-> f[x]])
    ELSE Raise(f)

\* Path.touch()
Touch(f, a) ==
    IF Exists(f, a) THEN Ok(f)
    ELSE IF a # << >> /\ IsDir(f, Parent(a)) THEN Ok(Put(f, a, FileNode("")))
    ELSE Raise(f)

\* with open(a, "w") as f: f.write(content)
WriteFile(f, a, content) ==
    IF IsDir(f, a) THEN Raise(f)
    ELSE IF a # << >> /\ IsDir(f, Parent(a)) THEN Ok(Put(f, a, FileNode(content)))
    ELSE Raise(f)

\* ------------------------------------------------------------------------
\* Data of the script

\* the list with "output/student_reports" left out
directories_NoReports == << <<"src">>, <<"tests">>, <<"data">>, <<".vscode">> >>

\* the list with "src" created last
directories_SrcLast ==
    << <<"tests">>, <<"data">>, <<"output", "student_reports">>, <<".vscode">>,
       <<"src">> >>

directories ==
    << <<"src">>, <<"tests">>, <<"data">>, <<"output", "student_reports">>,
       <<".vscode">> >>

init_files == << <<"src", "__init__.py">>, <<"tests", "__init__.py">> >>

vscode_files ==
    << [path |-> <<".vscode", "settings.json">>, content |-> "settings"],
       [path |-> <<".vscode", "launch.json">>, content |-> "launch"] >>

data_files ==
    << [path |-> <<"data", "syllabus_topics.json">>, content |-> "syllabus"],
       [path |-> <<"data", "sample_mcq_results.csv">>,
        content |-> "student_id,q1,q2,q3,q4,q5,total_score"],
       [path |-> <<"data", "sample_assignments.csv">>,
        content |-> "student_id,assignment_1,assignment_2,assignment_3,total"],
       [path |-> <<"data", "sample_participation.csv">>,
        content |-> "student_id,week_1,week_2,week_3,week_4,average"] >>

\* ------------------------------------------------------------------------
\* Inputs and initial file systems

\* answers typed at a (y/n) prompt
Answers ==
    { <<"y">>, <<"Y">>, <<"n">>, << >>, <<" ", "y">>, <<"y", "e", "s">> }

\* answers typed at the "Enter project path" prompt
CustomPaths ==
    { << >>, <<" ">>,
      <<"~", "/", "Desktop", "/">>,
      <<" ", "~", "/", "Desktop", " ">>,
      <<"/", "srv", "new">>,
      <<"work">>,
      <<"notes">> }

Desktop == HomeDir \o <<"Desktop">>
Work == InitialCwd \o <<"work">>

Merge(f, g) == [x \in DOMAIN f \cup DOMAIN g |-> IF x \in DOMAIN f THEN f[x] ELSE g[x]]

Empty == [x \in {} |-> DirNode]

\* what may already sit at <b>/igcse-assessment-tool before the script runs
OldProject(b, how) ==
    LET p == b \o <<project_name>>
    IN  CASE how = "none" -> Empty
          [] how = "file" -> Put(Empty, p, FileNode("old"))
          [] how = "dir" ->
               Put(Put(Put(Put(Empty, p, DirNode),
                               p \o <<"old.txt">>, FileNode("old")),
                           p \o <<"src">>, DirNode),
                       p \o <<"src", "__init__.py">>, FileNode("old"))

OldStates == {"none", "file", "dir"}

\* a directory that may be absent, or present with or without an old project
OptionalDir(d, how) ==
    IF how = "absent" THEN Empty ELSE Merge(Put(Empty, d, DirNode), OldProject(d, how))

BaseFS ==
    Put(Put(Put(Put(Put(Empty, << >>, DirNode),
                        <<"home">>, DirNode),
                    HomeDir, DirNode),
                InitialCwd, DirNode),
            InitialCwd \o <<"notes">>, FileNode("notes"))

InitialFileSystems ==
    { Merge(Merge(Merge(BaseFS, OldProject(InitialCwd, c)), OptionalDir(Desktop, d)),
            OptionalDir(Work, w)) :
        c \in OldStates, d \in OldStates \cup {"absent"}, w \in OldStates \cup {"absent"} }

NoPath == [abs |-> FALSE, comps |-> <<"<unset>">>]

Init ==
    /\ pc = "ask_here"
    /\ fs \in InitialFileSystems
    /\ fs0 = fs
    /\ cwd = InitialCwd
    /\ response = Unset
    /\ custom_path = Unset
    /\ typed = [here |-> Unset, path |-> Unset, overwrite |-> Unset]
    /\ base_dir = NoPath
    /\ project_dir = NoPath
    /\ idx = 1

\* ------------------------------------------------------------------------
\* create_project_structure, one action per step

\* the answer stripped as well as lower-cased
ReadAnswer_Stripped(raw) == Lower(Strip(raw))

\* input(...).lower()
ReadAnswer(raw) == Lower(raw)

\* input(...).strip()
ReadPath(raw) == Strip(raw)

\* "if response != 'y'" after the "in current directory?" prompt
NotHere(resp) == resp # Yes

\* only an explicit 'n' cancels
Declined_OnlyN(resp) == resp = <<"n">>

\* "if response != 'y'" after the "Overwrite?" prompt
Declined(resp) == resp # Yes

\* the path taken without expanduser()
CustomBase_NoExpand(s) == PathOf(s)

\* base_dir = Path(custom_path).expanduser()
CustomBase(s) == ExpandUser(PathOf(s))

AskHere ==
    /\ pc = "ask_here"
    /\ \E raw \in Answers :
         /\ typed' = [typed EXCEPT !.here = raw]
         /\ response' = ReadAnswer(raw)
    /\ IF NotHere(response')
       THEN /\ pc' = "ask_path"
            /\ UNCHANGED base_dir
       ELSE /\ pc' = "check_project"
            /\ base_dir' = CwdPath(cwd)
    /\ UNCHANGED <<fs, cwd, custom_path, project_dir, idx, fs0>>

AskPath ==
    /\ pc = "ask_path"
    /\ \E raw \in CustomPaths :
         /\ typed' = [typed EXCEPT !.path = raw]
         /\ custom_path' = ReadPath(raw)
    /\ IF custom_path' # << >>
       THEN LET b == CustomBase(custom_path')
                made == IF Exists(fs, Abs(b, cwd)) THEN Ok(fs)
                        ELSE Mkdir(fs, Abs(b, cwd), TRUE, TRUE)
            IN  /\ base_dir' = b
                /\ fs' = made.fs
                /\ pc' = IF made.ok THEN "check_project" ELSE "error"
       ELSE /\ base_dir' = CwdPath(cwd)
            /\ fs' = fs
            /\ pc' = "check_project"
    /\ UNCHANGED <<cwd, response, project_dir, idx, fs0>>

CheckProject ==
    /\ pc = "check_project"
    /\ project_dir' = Join(base_dir, project_name)
    /\ pc' = IF Exists(fs, Abs(project_dir', cwd)) THEN "ask_overwrite" ELSE "mkdir_project"
    /\ UNCHANGED <<fs, cwd, response, custom_path, base_dir, idx, typed, fs0>>

AskOverwrite ==
    /\ pc = "ask_overwrite"
    /\ \E raw \in Answers :
         /\ typed' = [typed EXCEPT !.overwrite = raw]
         /\ response' = ReadAnswer(raw)
    /\ IF Declined(response')
       THEN /\ pc' = "cancelled"
            /\ fs' = fs
       ELSE LET gone == Rmtree(fs, Abs(project_dir, cwd))
            IN  /\ fs' = gone.fs
                /\ pc' = IF gone.ok THEN "mkdir_project" ELSE "error"
    /\ UNCHANGED <<cwd, custom_path, base_dir, project_dir, idx, fs0>>

MkdirProject ==
    /\ pc = "mkdir_project"
    /\ LET made == Mkdir(fs, Abs(project_dir, cwd), FALSE, TRUE)
       IN  /\ fs' = made.fs
           /\ pc' = IF made.ok THEN "chdir" ELSE "error"
    /\ UNCHANGED <<cwd, response, custom_path, base_dir, project_dir, idx, typed, fs0>>

Chdir ==
    /\ pc = "chdir"
    /\ IF IsDir(fs, Abs(project_dir, cwd))
       THEN /\ cwd' = Abs(project_dir, cwd)
            /\ pc' = "directories"
       ELSE /\ cwd' = cwd
            /\ pc' = "error"
    /\ idx' = 1
    /\ UNCHANGED <<fs, response, custom_path, base_dir, project_dir, typed, fs0>>

\* one iteration of "for dir_path in directories"
MakeDirectory ==
    /\ pc = "directories"
    /\ LET made == Mkdir(fs, cwd \o directories[idx], TRUE, TRUE)
       IN  /\ fs' = made.fs
           /\ IF ~made.ok THEN pc' = "error" /\ idx' = idx
              ELSE IF idx < Len(directories) THEN pc' = pc /\ idx' = idx + 1
              ELSE pc' = "init_files" /\ idx' = 1
    /\ UNCHANGED <<cwd, response, custom_path, base_dir, project_dir, typed, fs0>>

\* one iteration of "for init_file in init_files"
TouchInitFile ==
    /\ pc = "init_files"
    /\ LET made == Touch(fs, cwd \o init_files[idx])
       IN  /\ fs' = made.fs
           /\ IF ~made.ok THEN pc' = "error" /\ idx' = idx
              ELSE IF idx < Len(init_files) THEN pc' = pc /\ idx' = idx + 1
              ELSE pc' = "git_init" /\ idx' = 1
    /\ UNCHANGED <<cwd, response, custom_path, base_dir, project_dir, typed, fs0>>

\* subprocess.run(["git", "init"]): either git creates .git, or it fails or is
\* missing and the script only prints a warning
GitInit ==
    /\ pc = "git_init"
    /\ \E works \in BOOLEAN :
         fs' = IF works THEN Mkdir(fs, cwd \o <<".git">>, FALSE, TRUE).fs ELSE fs
    /\ pc' = "gitignore"
    /\ UNCHANGED <<cwd, response, custom_path, base_dir, project_dir, idx, typed, fs0>>

WriteStep(here, path, content, next) ==
    /\ pc = here
    /\ LET made == WriteFile(fs, cwd \o path, content)
       IN  /\ fs' = made.fs
           /\ pc' = IF made.ok THEN next ELSE "error"
    /\ UNCHANGED <<cwd, response, custom_path, base_dir, project_dir, idx, typed, fs0>>

create_gitignore ==
    WriteStep("gitignore", <<".gitignore">>, "gitignore_content", "requirements")

create_requirements ==
    WriteStep("requirements", <<"requirements.txt">>, "requirements_content", "readme")

create_readme ==
    WriteStep("readme", <<"README.md">>, "readme_content", "vscode")

WriteLoop(here, files, next) ==
    /\ pc = here
    /\ LET made == WriteFile(fs, cwd \o files[idx].path, files[idx].content)
       IN  /\ fs' = made.fs
           /\ IF ~made.ok THEN pc' = "error" /\ idx' = idx
              ELSE IF idx < Len(files) THEN pc' = pc /\ idx' = idx + 1
              ELSE pc' = next /\ idx' = 1
    /\ UNCHANGED <<cwd, response, custom_path, base_dir, project_dir, typed, fs0>>

\* one write of create_vscode_config
create_vscode_config == WriteLoop("vscode", vscode_files, "data")

\* one write of create_sample_data_structure
create_sample_data_structure == WriteLoop("data", data_files, "report")

\* print("Project structure created successfully!")
ReportSuccess ==
    /\ pc = "report"
    /\ pc' = "done"
    /\ UNCHANGED <<fs, cwd, response, custom_path, base_dir, project_dir, idx, typed, fs0>>

Next ==
    \/ AskHere
    \/ AskPath
    \/ CheckProject
    \/ AskOverwrite
    \/ MkdirProject
    \/ Chdir
    \/ MakeDirectory
    \/ TouchInitFile
    \/ GitInit
    \/ create_gitignore
    \/ create_requirements
    \/ create_readme
    \/ create_vscode_config
    \/ create_sample_data_structure
    \/ ReportSuccess

Spec == Init /\ [][Next]_vars

\* ------------------------------------------------------------------------
\* Properties

IsFile(f, a) == a \in DOMAIN f /\ f[a].kind = "file"

\* the base directory the answers select, as a location
ExpectedBase ==
    IF Lower(typed.here) = <<"y">> \/ Strip(typed.path) = << >>
    THEN InitialCwd
    ELSE Abs(ExpandUser(PathOf(Strip(typed.path))), InitialCwd)

ExpectedProject == ExpectedBase \o <<"igcse-assessment-tool">>

RequiredDirs ==
    { <<"src">>, <<"tests">>, <<"data">>, <<"output", "student_reports">>, <<".vscode">> }

RequiredFiles ==
    { <<"src", "__init__.py">>, <<"tests", "__init__.py">>, <<".gitignore">>,
      <<"requirements.txt">>, <<"README.md">>,
      <<".vscode", "settings.json">>, <<".vscode", "launch.json">>,
      <<"data", "syllabus_topics.json">>, <<"data", "sample_mcq_results.csv">>,
      <<"data", "sample_assignments.csv">>, <<"data", "sample_participation.csv">> }

\* C1: whenever the success message is reached, the five directories and the
\* eleven files exist under <base_dir>/igcse-assessment-tool, whatever was
\* answered and whether or not the directory existed before.
C1_AllCreatedOnSuccess ==
    pc = "done" =>
        /\ \A d \in RequiredDirs : IsDir(fs, ExpectedProject \o d)
        /\ \A f \in RequiredFiles : IsFile(fs, ExpectedProject \o f)

\* the success message is reached over an old project that was overwritten in
\* a custom base directory
C1_Witness ==
    /\ pc = "done"
    /\ typed.path # Unset
    /\ typed.overwrite = <<"Y">>
    /\ IsDir(fs0, ExpectedProject)

Removed == {a \in DOMAIN fs : a \notin DOMAIN fs'}

\* C2: anything is deleted only by the step that reads the answer to the
\* "Overwrite?" prompt, only when that answer is y or Y, only when the project
\* directory existed, and only the project directory and what is below it.
C2_DeleteOnlyAfterYes ==
    [][ Removed # {} =>
          /\ pc = "ask_overwrite"
          /\ typed.overwrite = Unset
          /\ typed'.overwrite \in { <<"y">>, <<"Y">> }
          /\ IsDir(fs0, ExpectedProject)
          /\ \A a \in Removed : IsPrefix(ExpectedProject, a) ]_vars

\* the old project directory has been deleted after the answer Y
C2_Witness ==
    /\ pc = "mkdir_project"
    /\ typed.overwrite = <<"Y">>
    /\ IsDir(fs0, ExpectedProject)
    /\ ~Exists(fs, ExpectedProject)

Range(a) == {a[k] : k \in 1..Len(a)}

\* nothing at or below any igcse-assessment-tool entry differs from before the run
Untouched ==
    \A a \in DOMAIN fs \cup DOMAIN fs0 :
        "igcse-assessment-tool" \in Range(a) =>
            a \in DOMAIN fs /\ a \in DOMAIN fs0 /\ fs[a] = fs0[a]

\* the order in which the entries of the project directory are created
CreationOrder ==
    << <<"src">>, <<"tests">>, <<"data">>, <<"output">>,
       <<"output", "student_reports">>, <<".vscode">>,
       <<"src", "__init__.py">>, <<"tests", "__init__.py">>,
       <<".gitignore">>, <<"requirements.txt">>, <<"README.md">>,
       <<".vscode", "settings.json">>, <<".vscode", "launch.json">>,
       <<"data", "syllabus_topics.json">>, <<"data", "sample_mcq_results.csv">>,
       <<"data", "sample_assignments.csv">>, <<"data", "sample_participation.csv">> >>

FirstCreated(k) ==
    {CreationOrder[j] : j \in 1..(IF k < Len(CreationOrder) THEN k ELSE Len(CreationOrder))}

\* the entries below the project directory p, git's own directory apart
Built(p) ==
    {SubSeq(a, Len(p) + 1, Len(a)) : a \in {b \in DOMAIN fs : IsPrefix(p, b) /\ b # p}}
    \ { <<".git">> }

Building ==
    pc \in {"chdir", "directories", "init_files", "git_init", "gitignore",
            "requirements", "readme", "vscode", "data", "report", "done"}

\* what exists of the project is always an initial part of the creation order;
\* git runs after the __init__.py files and before .gitignore
InOrder ==
    Building =>
        LET p == ExpectedProject
            built == Built(p)
        IN  /\ built = FirstCreated(Cardinality(built))
            /\ Exists(fs, p \o <<".git">>) => FirstCreated(8) \subseteq built
            /\ pc \in {"chdir", "directories", "init_files", "git_init"} =>
                   <<".gitignore">> \notin built

\* every entry of the file system lies in a directory
ParentFirst == \A a \in DOMAIN fs : a # << >> => IsDir(fs, Parent(a))

\* a prompt is being asked or is still to come
Prompting == pc \in {"ask_here", "ask_path", "check_project", "ask_overwrite"}

Ancestors(a) == {SubSeq(a, 1, k) : k \in 0..Len(a)}

\* C7: the project directory is <base_dir>/igcse-assessment-tool, base_dir
\* being the working directory when the first answer lower-cases to y or the
\* stripped custom path is empty, and the expanded custom path otherwise; the
\* base directory exists with its parents when the project directory is about
\* to be created.
C7_ProjectLocation ==
    /\ pc \in {"check_project", "ask_overwrite", "mkdir_project", "cancelled"} \cup
              (IF Building THEN {pc} ELSE {}) =>
           Abs(base_dir, InitialCwd) = ExpectedBase
    /\ pc \in {"ask_overwrite", "mkdir_project", "cancelled"} \cup
              (IF Building THEN {pc} ELSE {}) =>
           Abs(project_dir, InitialCwd) = ExpectedProject
    /\ (pc = "mkdir_project" /\ ~Exists(fs0, ExpectedBase)) =>
           /\ \A a \in Ancestors(ExpectedBase) : IsDir(fs, a)
           /\ ~Exists(fs, ExpectedProject)
    /\ Building => IsDir(fs, ExpectedProject)
    /\ (Building /\ pc # "chdir") => cwd = ExpectedProject

\* the project has been created below a custom path that did not exist and
\* was given with surrounding blanks and a "~"
C7_Witness ==
    /\ pc = "done"
    /\ typed.path = <<" ", "~", "/", "Desktop", " ">>
    /\ ~Exists(fs0, ExpectedBase)
    /\ IsDir(fs, ExpectedProject)

NothingChanged == pc = "cancelled" /\ fs = fs0 /\ cwd = InitialCwd

====
